---- MODULE Spec2Model ----
(***************************************************************************)
(* Model of streamlit_app.py: the "Generate CSV" run handler, the adaptive *)
(* two-pass fetch_posts_bulk, parse_post_date, posts_to_csv and            *)
(* extract_username.                                                       *)
(*                                                                         *)
(* JSON scalars are records [k, t]: k is the kind of value, t tells two    *)
(* values of one kind apart (for a date string, the instant it denotes).   *)
(* Instants are integers, two per day (see Days).                          *)
(* Strings that the code searches character by character (the profile URL) *)
(* are sequences of one-character strings.                                 *)
(***************************************************************************)
EXTENDS Integers, Sequences, FiniteSets

VARIABLES pc, profile_url, start_date, end_date, target_total, username,
          sent, received, all_items, posts, err, download

vars == <<pc, profile_url, start_date, end_date, target_total, username,
          sent, received, all_items, posts, err, download>>

----------------------------------------------------------------------------
(* Bounds of the model *)

MaxItems == 2
MaxChunks == 3
MaxRows == 2

(* min(target_total, 1000) and max(10000, target_total * 2) *)
RetryBatchCap == 1000
RetryCeilingFloor == 10000

(* The days the two date inputs range over.  The model keeps two instants  *)
(* of each day: its first (datetime.min.time(), 00:00:00) and its last     *)
(* (datetime.max.time(), 23:59:59.999999); instant 2d is the first of day  *)
(* d and 2d + 1 its last.                                                  *)
Days == {0, 1}
Instants == {2 * d + k : d \in Days, k \in {0, 1}}

Min2(a, b) == IF a <= b THEN a ELSE b
Max2(a, b) == IF a >= b THEN a ELSE b

----------------------------------------------------------------------------
(* JSON values *)

Val(k, t) == [k |-> k, t |-> t]
Absent == Val("absent", 0)      \* the key is not in the object
Null == Val("null", 0)          \* JSON null, Python None
EmptyStr == Val("empty", 0)     \* the string ""
Text(n) == Val("text", n)       \* a non-empty string that is no date
Num(n) == Val("num", n)         \* a number
Naive(t) == Val("naive", t)     \* a date string without UTC offset
Aware(t) == Val("aware", t)     \* a date string with a UTC offset

(* Python truthiness of what dict.get returns (None for a missing key) *)
Truthy(v) ==
    /\ v.k \notin {"absent", "null", "empty"}
    /\ ~(v.k = "num" /\ v.t = 0)

(* Nested objects: k is "obj" for a dict, "absent" for a missing key,      *)
(* "null" for None, "str" for any other non-dict value.                    *)
PostedAt(k, date, relative) == [k |-> k, date |-> date, relative |-> relative]
Stats(k, f) ==
    [k |-> k, total_reactions |-> f[1], like |-> f[2], support |-> f[3],
     love |-> f[4], insight |-> f[5], celebrate |-> f[6], comments |-> f[7],
     reposts |-> f[8], funny |-> f[9]]
Media(k, type) == [k |-> k, type |-> type]
NoFields == [i \in 1..9 |-> Absent]

(* A record of the actor's response.  req and idx are the identity of the  *)
(* dict object resp.json() built: the request it answers and its position. *)
Post(req, idx, posted_at, url, post_type, text, stats, media) ==
    [req |-> req, idx |-> idx, posted_at |-> posted_at, url |-> url,
     post_type |-> post_type, text |-> text, stats |-> stats, media |-> media]

----------------------------------------------------------------------------
(* parse_post_date *)

None == [ok |-> FALSE, aware |-> FALSE, t |-> 0]
Datetime(aware, t) == [ok |-> TRUE, aware |-> aware, t |-> t]

(* dateutil.parser.parse(str(value)) on the strings of the model, a        *)
(* ParserError caught as None                                              *)
DateutilParse(v) ==
    CASE v.k = "naive" -> Datetime(FALSE, v.t)
      [] v.k = "aware" -> Datetime(TRUE, v.t)
      [] v.k = "text" -> None

parse_post_date(value) ==
    IF ~Truthy(value) THEN None ELSE DateutilParse(value)

(* p.get("posted_at", {}).get("date"): the value, or the AttributeError of *)
(* calling .get on a value that is no dict                                 *)
DateOf(p) ==
    CASE p.posted_at.k = "absent" -> [exc |-> "none", v |-> Null]
      [] p.posted_at.k = "obj" ->
            [exc |-> "none",
             v |-> IF p.posted_at.date.k = "absent" THEN Null
                   ELSE p.posted_at.date]
      [] OTHER -> [exc |-> "AttributeError", v |-> Null]

(* datetime.combine(start_date, datetime.min.time()) and                  *)
(* datetime.combine(end_date, datetime.max.time())                        *)
start_dt(d) == 2 * d
end_dt(d) == 2 * d + 1

----------------------------------------------------------------------------
(* run_fetch: one POST to the actor and what it makes of the answer *)

NoErr == [kind |-> "none", status |-> 0, body |-> ""]
Raised(kind) == [kind |-> kind, status |-> 0, body |-> ""]

(* RuntimeError(f"Apify error {resp.status_code}: {resp.text}") *)
ApifyError(status, body) ==
    [kind |-> "RuntimeError", status |-> status, body |-> body]

(* The answer to a request: kind is "list" (a JSON array, items), "not_list" *)
(* (any other JSON document), "http_error" (not resp.ok: status, body),      *)
(* "bad_json" (resp.json() raises) or "timeout" (requests.post raises).      *)
Answer(kind, status, body, items) ==
    [kind |-> kind, status |-> status, body |-> body, items |-> items]

(* Mutant of run_fetch: resp.ok is not looked at, and the body of an error *)
(* answer, which is no array, gives []                                    *)
run_fetch_unchecked(resp) ==
    CASE resp.kind = "timeout" -> [exc |-> Raised("Timeout"), data |-> <<>>]
      [] resp.kind = "bad_json" ->
            [exc |-> Raised("JSONDecodeError"), data |-> <<>>]
      [] resp.kind = "list" -> [exc |-> NoErr, data |-> resp.items]
      [] OTHER -> [exc |-> NoErr, data |-> <<>>]

run_fetch(resp) ==
    CASE resp.kind = "timeout" -> [exc |-> Raised("Timeout"), data |-> <<>>]
      [] resp.kind = "http_error" ->
            [exc |-> ApifyError(resp.status, resp.body), data |-> <<>>]
      [] resp.kind = "bad_json" ->
            [exc |-> Raised("JSONDecodeError"), data |-> <<>>]
      [] resp.kind = "list" -> [exc |-> NoErr, data |-> resp.items]
      [] OTHER -> [exc |-> NoErr, data |-> <<>>]

(* The JSON body of the request *)
Request(user, per_page, total_posts) ==
    [username |-> user, limit |-> per_page, total_posts |-> total_posts]

----------------------------------------------------------------------------
(* fetch_posts_bulk: inspection of the first batch *)

parsed_dates(items) ==
    [i \in 1..Len(items) |-> parse_post_date(DateOf(items[i]).v)]

valid_dates(items) ==
    {i \in 1..Len(items) : parsed_dates(items)[i].ok}

(* min(valid_dates) *)
min_dt(items) ==
    LET ds == {parsed_dates(items)[i].t : i \in valid_dates(items)}
    IN CHOOSE t \in ds : \A u \in ds : t <= u

(* What lines 59-62 raise on a non-empty batch: .get on a posted_at that is *)
(* no dict (AttributeError), or the comparison of an offset-aware datetime  *)
(* with another datetime or with the naive start (TypeError).               *)
InspectRaises(items) ==
    IF \E i \in 1..Len(items) : DateOf(items[i]).exc # "none"
    THEN Raised("AttributeError")
    ELSE IF \E i \in valid_dates(items) : parsed_dates(items)[i].aware
    THEN Raised("TypeError")
    ELSE NoErr

(* not min_dt or (min_dt and min_dt > start and                            *)
(*                len(all_items) >= min(target_total, 1000))               *)
NeedsRetry(items, start, total) ==
    \/ valid_dates(items) = {}
    \/ /\ min_dt(items) > start
       /\ Len(items) >= Min2(total, RetryBatchCap)

(* max(10000, target_total * 2) *)
RetryCeiling(total) == Max2(RetryCeilingFloor, total * 2)

----------------------------------------------------------------------------
(* fetch_posts_bulk: filter by timeframe, sort newest first *)

(* The first record the filter loop raises on, 0 if none *)
FirstBad(items) ==
    LET bad == {i \in 1..Len(items) :
                   \/ DateOf(items[i]).exc # "none"
                   \/ /\ parsed_dates(items)[i].ok
                      /\ parsed_dates(items)[i].aware}
    IN IF bad = {} THEN 0 ELSE CHOOSE i \in bad : \A j \in bad : i <= j

FilterRaises(items) ==
    IF FirstBad(items) = 0 THEN NoErr
    ELSE IF DateOf(items[FirstBad(items)]).exc # "none"
    THEN Raised("AttributeError")
    ELSE Raised("TypeError")

(* Mutant of InRange: the upper bound is not compared *)
InRangeNoUpper(p, start, end) ==
    LET dt == parse_post_date(DateOf(p).v)
    IN dt.ok /\ start <= dt.t

(* if dt and start <= dt <= end *)
InRange(p, start, end) ==
    LET dt == parse_post_date(DateOf(p).v)
    IN dt.ok /\ start <= dt.t /\ dt.t <= end

RECURSIVE in_range(_, _, _)
in_range(items, start, end) ==
    IF items = <<>> THEN <<>>
    ELSE LET rest == in_range(Tail(items), start, end)
         IN IF InRange(Head(items), start, end)
            THEN <<Head(items)>> \o rest ELSE rest

(* key=lambda p: parse_post_date(...) or datetime.min; datetime.min is     *)
(* before every instant of the model                                       *)
SortKey(p) ==
    LET dt == parse_post_date(DateOf(p).v)
    IN IF dt.ok THEN dt.t ELSE -1

(* Mutant of InsertNewestFirst: an ascending sort reversed, which turns    *)
(* the order of equal keys around                                          *)
RECURSIVE InsertNewestFirstUnstable(_, _)
InsertNewestFirstUnstable(sorted, p) ==
    IF sorted = <<>> THEN <<p>>
    ELSE IF SortKey(Head(sorted)) > SortKey(p)
    THEN <<Head(sorted)>> \o InsertNewestFirstUnstable(Tail(sorted), p)
    ELSE <<p>> \o sorted

(* list.sort(key=..., reverse=True) is stable: a record goes after every   *)
(* record whose key is greater or equal                                    *)
RECURSIVE InsertNewestFirst(_, _)
InsertNewestFirst(sorted, p) ==
    IF sorted = <<>> THEN <<p>>
    ELSE IF SortKey(Head(sorted)) >= SortKey(p)
    THEN <<Head(sorted)>> \o InsertNewestFirst(Tail(sorted), p)
    ELSE <<p>> \o sorted

RECURSIVE SortNewestFirst(_)
SortNewestFirst(items) ==
    IF items = <<>> THEN <<>>
    ELSE InsertNewestFirst(
            SortNewestFirst(SubSeq(items, 1, Len(items) - 1)),
            items[Len(items)])

----------------------------------------------------------------------------
(* posts_to_csv *)

headers ==
    <<"Post Date", "posted_at/relative", "url", "Post Type", "Post Content",
      "total reactions", "like", "support", "love", "insightful", "celebrate",
      "comments", "reposts", "funny", "Media Type">>

(* Mutant of get_path: return cur or "", which loses a count of 0 *)
get_path_or_empty(obj, path) ==
    LET cur == obj[path[1]]
    IN IF cur.k = "absent" THEN EmptyStr
       ELSE IF cur.k # "obj" \/ cur[path[2]].k = "absent" THEN EmptyStr
       ELSE IF ~Truthy(cur[path[2]]) THEN EmptyStr
       ELSE cur[path[2]]

(* get_path(obj, "a.b"): "" as soon as the current value is no dict or has *)
(* no such key                                                             *)
get_path(obj, path) ==
    LET cur == obj[path[1]]
    IN IF cur.k = "absent" THEN EmptyStr
       ELSE IF cur.k # "obj" \/ cur[path[2]].k = "absent" THEN EmptyStr
       ELSE cur[path[2]]

(* p.get(key, "") *)
get_top(p, key) == IF p[key].k = "absent" THEN EmptyStr ELSE p[key]

row(p) ==
    <<get_path(p, <<"posted_at", "date">>),
      get_path(p, <<"posted_at", "relative">>),
      get_top(p, "url"),
      get_top(p, "post_type"),
      get_top(p, "text"),
      get_path(p, <<"stats", "total_reactions">>),
      get_path(p, <<"stats", "like">>),
      get_path(p, <<"stats", "support">>),
      get_path(p, <<"stats", "love">>),
      get_path(p, <<"stats", "insight">>),
      get_path(p, <<"stats", "celebrate">>),
      get_path(p, <<"stats", "comments">>),
      get_path(p, <<"stats", "reposts">>),
      get_path(p, <<"stats", "funny">>),
      get_path(p, <<"media", "type">>)>>

(* csv.writer writes None as the empty field and any other value as its   *)
(* str()                                                                   *)
writerow(cells) ==
    [j \in 1..Len(cells) |-> IF cells[j].k = "null" THEN EmptyStr ELSE cells[j]]

NoDownload == [present |-> FALSE, header |-> <<>>, rows |-> <<>>]

posts_to_csv(ps) ==
    [present |-> TRUE,
     header |-> headers,
     rows |-> [i \in 1..Len(ps) |-> writerow(row(ps[i]))]]

----------------------------------------------------------------------------
(* extract_username: re.search(r"linkedin\.com\/in\/([^\/?#]+)", url) *)

Pattern ==
    <<"l", "i", "n", "k", "e", "d", "i", "n", ".", "c", "o", "m",
      "/", "i", "n", "/">>
Delims == {"/", "?", "#"}
Whitespace == {" ", "\t"}

(* The pattern matches at i: the literal, then at least one character of   *)
(* the group                                                               *)
MatchAt(s, i) ==
    /\ i + Len(Pattern) <= Len(s)
    /\ SubSeq(s, i, i + Len(Pattern) - 1) = Pattern
    /\ s[i + Len(Pattern)] \notin Delims

(* re.search scans from the left: the first i the pattern matches at, 0 if *)
(* there is none                                                           *)
RECURSIVE re_search(_, _)
re_search(s, i) ==
    IF i > Len(s) THEN 0
    ELSE IF MatchAt(s, i) THEN i
    ELSE re_search(s, i + 1)

(* Mutant of group1: the group is [^\/]+, which runs over ? and # *)
RECURSIVE group1_slash_only(_, _)
group1_slash_only(s, j) ==
    IF j > Len(s) \/ s[j] = "/" THEN <<>>
    ELSE <<s[j]>> \o group1_slash_only(s, j + 1)

(* [^\/?#]+ is greedy: the group runs to the next delimiter or to the end *)
RECURSIVE group1(_, _)
group1(s, j) ==
    IF j > Len(s) \/ s[j] \in Delims THEN <<>>
    ELSE <<s[j]>> \o group1(s, j + 1)

RECURSIVE lstrip(_)
lstrip(s) ==
    IF s # <<>> /\ Head(s) \in Whitespace THEN lstrip(Tail(s)) ELSE s

RECURSIVE rstrip(_)
rstrip(s) ==
    IF s # <<>> /\ s[Len(s)] \in Whitespace
    THEN rstrip(SubSeq(s, 1, Len(s) - 1)) ELSE s

strip(s) == rstrip(lstrip(s))

extract_username(linkedin_url) ==
    LET m == re_search(linkedin_url, 1)
    IN IF m # 0 THEN group1(linkedin_url, m + Len(Pattern))
       ELSE strip(linkedin_url)

----------------------------------------------------------------------------
(* Inputs of a run: the form and the answers of the actor *)

NoPostedAt == PostedAt("absent", Absent, Absent)
DatedAt(date) == PostedAt("obj", date, Text(9))

(* A record with nothing but posted_at, and one with every exported field *)
BarePost(posted_at) ==
    Post(0, 0, posted_at, Absent, Absent, Absent,
         Stats("absent", NoFields), Media("absent", Absent))
FullPost(posted_at) ==
    Post(0, 0, posted_at, Text(1), Text(2), Text(3),
         Stats("obj", <<Num(7), Num(4), Num(0), Num(1), Num(2), Absent,
                        Num(3), Null, Absent>>),
         Media("obj", Text(4)))

(* The shapes of record the actor answers with: posted_at missing, null,   *)
(* a date that is no date, a date with a UTC offset, and a date at each    *)
(* instant                                                                 *)
ActorPosts ==
    {BarePost(NoPostedAt),
     BarePost(PostedAt("null", Absent, Absent)),
     FullPost(DatedAt(Text(0))),
     FullPost(DatedAt(Aware(0)))}
    \cup {FullPost(DatedAt(Naive(t))) : t \in Instants}

Batches == UNION {[1..n -> ActorPosts] : n \in 0..MaxItems}

(* resp.json() builds new dict objects for each answer *)
Tagged(batch, req) ==
    [i \in 1..Len(batch) |-> [batch[i] EXCEPT !.req = req, !.idx = i]]

Answers(req) ==
    {Answer("timeout", 0, "", <<>>),
     Answer("bad_json", 200, "<html>", <<>>),
     Answer("not_list", 200, "{}", <<>>)}
    \cup {Answer("http_error", s, b, <<>>) :
            s \in {404, 500}, b \in {"", "Internal Server Error"}}
    \cup {Answer("list", 200, "[..]", Tagged(b, req)) : b \in Batches}

Received(resp) ==
    [kind |-> resp.kind, status |-> resp.status, body |-> resp.body,
     n |-> Len(resp.items)]

(* st.text_input: nothing typed, or a profile URL *)
ProfileUrls ==
    {<<>>, <<"w", "w", "w", ".">> \o Pattern \o <<"a", "b", "/">>}

(* st.number_input(min_value=1, max_value=20000) *)
TargetTotals == {1, 2, 6000}
(* st.number_input(min_value=1, max_value=100) *)
PerPages == {100}

----------------------------------------------------------------------------
(* The run handler (if run:) *)

Init ==
    /\ pc = "form"
    /\ profile_url = <<>>
    /\ start_date = 0
    /\ end_date = 0
    /\ target_total = 1
    /\ username = <<>>
    /\ sent = <<>>
    /\ received = <<>>
    /\ all_items = <<>>
    /\ posts = <<>>
    /\ err = NoErr
    /\ download = NoDownload

(* Lines 66-75 and 187-192: filter, sort, return, then export.  Any        *)
(* exception ends in the handler's except clause.                          *)
Completed(items, start, end) ==
    IF FilterRaises(items) # NoErr
    THEN [pc |-> "error", posts |-> <<>>, err |-> FilterRaises(items),
          download |-> NoDownload]
    ELSE LET ps == SortNewestFirst(in_range(items, start, end))
         IN [pc |-> "done", posts |-> ps, err |-> NoErr,
             download |-> posts_to_csv(ps)]

Failed(e) ==
    [pc |-> "error", posts |-> <<>>, err |-> e, download |-> NoDownload]

(* if not profile_url: st.error(...); st.stop() *)
GenerateNoUrl ==
    /\ pc = "form"
    /\ \E url \in ProfileUrls :
          /\ url = <<>>
          /\ profile_url' = url
    /\ pc' = "stopped"
    /\ err' = Raised("MissingUrl")
    /\ UNCHANGED <<start_date, end_date, target_total, username, sent,
                   received, all_items, posts, download>>

(* Mutant of Generate: the profile URL is not checked before the fetch *)
GenerateUnchecked ==
    /\ pc = "form"
    /\ \E url \in ProfileUrls, sd \in Days, ed \in Days,
          total \in TargetTotals, per_page \in PerPages :
          /\ profile_url' = url
          /\ start_date' = sd
          /\ end_date' = ed
          /\ target_total' = total
          /\ username' = extract_username(url)
          /\ sent' = <<Request(extract_username(url), per_page, total)>>
    /\ pc' = "await1"
    /\ UNCHANGED <<received, all_items, posts, err, download>>

(* Lines 172-185 up to the first requests.post of run_fetch(target_total) *)
Generate ==
    /\ pc = "form"
    /\ \E url \in ProfileUrls, sd \in Days, ed \in Days,
          total \in TargetTotals, per_page \in PerPages :
          /\ url # <<>>
          /\ profile_url' = url
          /\ start_date' = sd
          /\ end_date' = ed
          /\ target_total' = total
          /\ username' = extract_username(url)
          /\ sent' = <<Request(extract_username(url), per_page, total)>>
    /\ pc' = "await1"
    /\ UNCHANGED <<received, all_items, posts, err, download>>

(* The first answer: run_fetch returns or raises, the batch is inspected,  *)
(* and either the retry is sent or the run completes                       *)
FirstAnswer ==
    /\ pc = "await1"
    /\ \E resp \in Answers(1) :
          LET r == run_fetch(resp)
              start == start_dt(start_date)
              end == end_dt(end_date)
              retry == /\ r.exc = NoErr
                       /\ r.data # <<>>
                       /\ InspectRaises(r.data) = NoErr
                       /\ NeedsRetry(r.data, start, target_total)
              out == IF r.exc # NoErr THEN Failed(r.exc)
                     ELSE IF r.data # <<>> /\ InspectRaises(r.data) # NoErr
                     THEN Failed(InspectRaises(r.data))
                     ELSE Completed(r.data, start, end)
          IN /\ received' = Append(received, Received(resp))
             /\ all_items' = r.data
             /\ IF retry
                THEN /\ sent' = Append(sent,
                            Request(username, sent[1].limit,
                                    RetryCeiling(target_total)))
                     /\ pc' = "await2"
                     /\ UNCHANGED <<posts, err, download>>
                ELSE /\ pc' = out.pc
                     /\ posts' = out.posts
                     /\ err' = out.err
                     /\ download' = out.download
                     /\ UNCHANGED sent
    /\ UNCHANGED <<profile_url, start_date, end_date, target_total, username>>

(* Mutant of SecondAnswer: the second batch is inspected like the first,   *)
(* and the retry is sent again                                             *)
SecondAnswerRetrying ==
    /\ pc = "await2"
    /\ \E resp \in Answers(2) :
          LET r == run_fetch(resp)
              start == start_dt(start_date)
              end == end_dt(end_date)
              retry == /\ r.exc = NoErr
                       /\ r.data # <<>>
                       /\ InspectRaises(r.data) = NoErr
                       /\ NeedsRetry(r.data, start, target_total)
              out == IF r.exc # NoErr THEN Failed(r.exc)
                     ELSE Completed(r.data, start, end)
          IN /\ received' = Append(received, Received(resp))
             /\ all_items' = IF r.exc # NoErr THEN all_items ELSE r.data
             /\ IF retry
                THEN /\ sent' = Append(sent,
                            Request(username, sent[1].limit,
                                    RetryCeiling(target_total)))
                     /\ pc' = "await2"
                     /\ UNCHANGED <<posts, err, download>>
                ELSE /\ pc' = out.pc
                     /\ posts' = out.posts
                     /\ err' = out.err
                     /\ download' = out.download
                     /\ UNCHANGED sent
    /\ UNCHANGED <<profile_url, start_date, end_date, target_total, username>>

(* Mutant of SecondAnswer: the second batch is added to the first *)
SecondAnswerExtending ==
    /\ pc = "await2"
    /\ \E resp \in Answers(2) :
          LET r == run_fetch(resp)
              both == all_items \o r.data
              out == IF r.exc # NoErr THEN Failed(r.exc)
                     ELSE Completed(both, start_dt(start_date),
                                    end_dt(end_date))
          IN /\ received' = Append(received, Received(resp))
             /\ all_items' = IF r.exc # NoErr THEN all_items ELSE both
             /\ pc' = out.pc
             /\ posts' = out.posts
             /\ err' = out.err
             /\ download' = out.download
    /\ UNCHANGED <<profile_url, start_date, end_date, target_total, username,
                   sent>>

(* The answer to the retry: run_fetch returns or raises, and the run       *)
(* completes with this batch                                               *)
SecondAnswer ==
    /\ pc = "await2"
    /\ \E resp \in Answers(2) :
          LET r == run_fetch(resp)
              out == IF r.exc # NoErr THEN Failed(r.exc)
                     ELSE Completed(r.data, start_dt(start_date),
                                    end_dt(end_date))
          IN /\ received' = Append(received, Received(resp))
             /\ all_items' = IF r.exc # NoErr THEN all_items ELSE r.data
             /\ pc' = out.pc
             /\ posts' = out.posts
             /\ err' = out.err
             /\ download' = out.download
    /\ UNCHANGED <<profile_url, start_date, end_date, target_total, username,
                   sent>>

(* Streamlit runs the script anew on the next interaction: nothing of a    *)
(* run is kept                                                             *)
Rerun ==
    /\ pc \in {"done", "error", "stopped"}
    /\ pc' = "form"
    /\ profile_url' = <<>>
    /\ start_date' = 0
    /\ end_date' = 0
    /\ target_total' = 1
    /\ username' = <<>>
    /\ sent' = <<>>
    /\ received' = <<>>
    /\ all_items' = <<>>
    /\ posts' = <<>>
    /\ err' = NoErr
    /\ download' = NoDownload

Next ==
    \/ GenerateNoUrl
    \/ Generate
    \/ FirstAnswer
    \/ SecondAnswer
    \/ Rerun

Spec == Init /\ [][Next]_vars

----------------------------------------------------------------------------
(* posts_to_csv on its own: any sequence of records *)

CsvPostedAts ==
    {NoPostedAt,
     PostedAt("str", Absent, Absent),
     PostedAt("obj", Naive(0), Absent),
     PostedAt("obj", Null, Text(9))}

CsvStats ==
    {Stats("absent", NoFields),
     Stats("str", NoFields),
     Stats("obj", <<Num(7), Num(4), Num(0), Null, Num(2), Absent,
                    Num(3), Absent, EmptyStr>>)}

CsvMedias == {Media("absent", Absent), Media("obj", Text(4))}

CsvTops == {Absent, Text(1)}

CsvPosts ==
    {Post(0, 0, pa, top, top, Text(3), st, md) :
        pa \in CsvPostedAts, top \in CsvTops, st \in CsvStats,
        md \in CsvMedias}

InitCsv ==
    /\ pc = "csv_input"
    /\ posts \in UNION {[1..n -> CsvPosts] : n \in 0..MaxRows}
    /\ download = NoDownload
    /\ profile_url = <<>>
    /\ start_date = 0
    /\ end_date = 0
    /\ target_total = 1
    /\ username = <<>>
    /\ sent = <<>>
    /\ received = <<>>
    /\ all_items = <<>>
    /\ err = NoErr

ExportCsv ==
    /\ pc = "csv_input"
    /\ download' = posts_to_csv(posts)
    /\ pc' = "csv_done"
    /\ UNCHANGED <<profile_url, start_date, end_date, target_total, username,
                   sent, received, all_items, posts, err>>

NextCsv == ExportCsv

SpecCsv == InitCsv /\ [][NextCsv]_vars

----------------------------------------------------------------------------
(* extract_username on its own: any string built of these pieces *)

UrlChunks ==
    {Pattern,
     <<"l", "i", "n", "k", "e", "d", "i", "n", "-", "c", "o", "m",
       "/", "i", "n", "/">>,
     <<"/", "i", "n", "/">>,
     <<"h", "t", "t", "p", "s", ":", "/", "/">>,
     <<"a">>, <<"b", "c">>, <<"/">>, <<"?">>, <<"#">>, <<" ">>}

RECURSIVE Concat(_)
Concat(chunks) ==
    IF chunks = <<>> THEN <<>> ELSE Head(chunks) \o Concat(Tail(chunks))

UrlInputs ==
    {Concat(cs) : cs \in UNION {[1..n -> UrlChunks] : n \in 0..MaxChunks}}

InitUser ==
    /\ pc = "url_input"
    /\ profile_url \in UrlInputs
    /\ username = <<>>
    /\ start_date = 0
    /\ end_date = 0
    /\ target_total = 1
    /\ sent = <<>>
    /\ received = <<>>
    /\ all_items = <<>>
    /\ posts = <<>>
    /\ err = NoErr
    /\ download = NoDownload

ExtractUsername ==
    /\ pc = "url_input"
    /\ username' = extract_username(profile_url)
    /\ pc' = "url_done"
    /\ UNCHANGED <<profile_url, start_date, end_date, target_total, sent,
                   received, all_items, posts, err, download>>

NextUser == ExtractUsername

SpecUser == InitUser /\ [][NextUser]_vars

----------------------------------------------------------------------------
(* Properties of a run (Spec) *)

Range(seq) == {seq[i] : i \in 1..Len(seq)}

(* The datetime of a record, None when there is none to parse *)
Timestamp(p) == parse_post_date(DateOf(p).v)

(* C1: a run sends at most 2 requests to the actor, never two at a time: a *)
(* request is sent only when every earlier one has been answered, the      *)
(* second only after a first answer that was a non-empty array, and none   *)
(* after the second answer, whatever it holds.                             *)
C1_AtMostTwoRequests ==
    /\ Len(sent) <= 2
    /\ Len(received) <= Len(sent)
    /\ Len(sent) <= Len(received) + 1
    /\ Len(sent) = 2 => received[1].kind = "list" /\ received[1].n > 0
    /\ Len(received) = 2 => pc \in {"done", "error"}

(* C1 witness: a run that retried and whose second answer again holds no   *)
(* parseable date has ended with 2 requests sent.                          *)
C1_Witness ==
    /\ pc = "done"
    /\ Len(sent) = 2
    /\ Len(received) = 2
    /\ all_items # <<>>
    /\ \A i \in 1..Len(all_items) : ~Timestamp(all_items[i]).ok

(* C2: an answer with a non-success status is the last event of its run:   *)
(* the run is in error with the status and the body of that answer, no     *)
(* request follows it and there is no CSV; a CSV exists only in a run that *)
(* completed with no error.                                                *)
C2_HttpErrorIsFatal ==
    /\ \A i \in 1..Len(received) :
          received[i].kind = "http_error" =>
             /\ i = Len(received)
             /\ Len(sent) = i
             /\ pc = "error"
             /\ err = [kind |-> "RuntimeError", status |-> received[i].status,
                       body |-> received[i].body]
             /\ ~download.present
    /\ download.present =>
          /\ pc = "done"
          /\ err.kind = "none"
          /\ \A i \in 1..Len(received) :
                received[i].kind \in {"list", "not_list"}

(* C2 witness: the retry was answered with HTTP 500 *)
C2_Witness ==
    /\ Len(received) = 2
    /\ received[2].kind = "http_error"
    /\ received[2].status = 500
    /\ received[2].body = "Internal Server Error"
    /\ pc = "error"

(* C3 (as claimed): a run whose answers were all successful never ends in  *)
(* an error, whatever the shape of the records.                            *)
C3_MalformedRecordsNeverAbort ==
    (\A i \in 1..Len(received) : received[i].kind \in {"list", "not_list"})
        => pc # "error"

(* C4: in a run that returned, every record of the in-range subset has a   *)
(* parsed timestamp within [start of day(start), end of day(end)], and a   *)
(* record of the final batch with no parseable timestamp is not in the     *)
(* subset, while the full batch still holds every record of the answer.    *)
C4_InRangeWithinBounds ==
    pc = "done" =>
       /\ \A i \in 1..Len(posts) :
             /\ Timestamp(posts[i]).ok
             /\ 2 * start_date <= Timestamp(posts[i]).t
             /\ Timestamp(posts[i]).t <= 2 * end_date + 1
       /\ \A j \in 1..Len(all_items) :
             ~Timestamp(all_items[j]).ok => all_items[j] \notin Range(posts)
       /\ Len(all_items) = received[Len(received)].n

(* C4 witness: a run returned a non-empty subset from a batch that also    *)
(* holds a record without parseable timestamp.                             *)
C4_Witness ==
    /\ pc = "done"
    /\ posts # <<>>
    /\ \E j \in 1..Len(all_items) : ~Timestamp(all_items[j]).ok

(* C5 (as claimed): the in-range subset is a strict subset of the full     *)
(* batch.                                                                  *)
C5_StrictSubset ==
    pc = "done" =>
       /\ Range(posts) \subseteq Range(all_items)
       /\ Range(posts) # Range(all_items)

(* C5 (amended): the in-range subset is a subset of the returned full      *)
(* batch, possibly all of it, without repetition; the full batch is the    *)
(* answer to the last request sent (the second when a retry was issued),   *)
(* so that no record of a discarded first answer is in either output.      *)
C5_SubsetOfFinalBatch ==
    pc = "done" =>
       /\ Range(posts) \subseteq Range(all_items)
       /\ Cardinality(Range(posts)) = Len(posts)
       /\ \A i \in 1..Len(all_items) :
             /\ all_items[i].req = Len(sent)
             /\ all_items[i].idx = i
       /\ Len(all_items) = received[Len(sent)].n

(* C5 witness: after a retry, a run returned a subset that is not the      *)
(* whole of the second batch.                                              *)
C5_Witness ==
    /\ pc = "done"
    /\ Len(sent) = 2
    /\ posts # <<>>
    /\ Len(posts) < Len(all_items)

(* C6: the in-range subset is in descending order of timestamp, and two    *)
(* records with equal timestamps are in the order of the final batch.      *)
C6_NewestFirstStable ==
    pc = "done" =>
       \A i, j \in 1..Len(posts) :
          i < j =>
             /\ Timestamp(posts[i]).t >= Timestamp(posts[j]).t
             /\ Timestamp(posts[i]).t = Timestamp(posts[j]).t
                   => posts[i].idx < posts[j].idx

(* C6 witness: two records with the same timestamp were returned *)
C6_Witness ==
    /\ pc = "done"
    /\ \E i, j \in 1..Len(posts) :
          /\ i < j
          /\ Timestamp(posts[i]).t = Timestamp(posts[j]).t

(* C9: with no profile URL the run stops with the input error, having sent *)
(* nothing and exported nothing; whenever a request has been sent, the     *)
(* profile URL is there.                                                   *)
C9_MissingUrlStopsBeforeRequest ==
    /\ profile_url = <<>> =>
          /\ pc \in {"form", "stopped"}
          /\ sent = <<>>
          /\ ~download.present
    /\ pc = "stopped" => profile_url = <<>> /\ err.kind = "MissingUrl"
    /\ sent # <<>> => profile_url # <<>>

(* C9 witness: a run was triggered without URL and stopped *)
C9_Witness ==
    /\ pc = "stopped"
    /\ err.kind = "MissingUrl"
    /\ sent = <<>>

(* The retry condition in the words of the claim, on the first batch; the *)
(* requested start is the first instant of the start day                  *)
ClaimedRetry(items) ==
    LET ok == {i \in 1..Len(items) : Timestamp(items[i]).ok}
    IN /\ Len(items) >= 1
       /\ \/ ok = {}
          \/ /\ \A i \in ok : Timestamp(items[i]).t > 2 * start_date
             /\ Len(items) >= Min2(target_total, 1000)

(* C10 (as claimed): once the first answer is in, a second request has     *)
(* been sent exactly when the first batch meets the retry condition, and   *)
(* it asks for max(10000, target_total * 2); otherwise both outputs come   *)
(* from the first answer.                                                  *)
C10_RetryExactlyWhen ==
    (Len(received) = 1 /\ received[1].kind \in {"list", "not_list"}) =>
       /\ Len(sent) = 2 <=> ClaimedRetry(all_items)
       /\ Len(sent) = 2 =>
             sent[2].total_posts =
                (IF target_total * 2 > 10000 THEN target_total * 2 ELSE 10000)
       /\ Len(sent) = 1 =>
             /\ pc = "done"
             /\ \A i \in 1..Len(all_items) : all_items[i].req = 1
             /\ \A i \in 1..Len(posts) : posts[i].req = 1

----------------------------------------------------------------------------
(* Properties of posts_to_csv (SpecCsv) *)

(* The column of each header and the path it is read from *)
ColumnPaths ==
    <<<<"posted_at", "date">>, <<"posted_at", "relative">>, <<"url">>,
      <<"post_type">>, <<"text">>, <<"stats", "total_reactions">>,
      <<"stats", "like">>, <<"stats", "support">>, <<"stats", "love">>,
      <<"stats", "insight">>, <<"stats", "celebrate">>,
      <<"stats", "comments">>, <<"stats", "reposts">>, <<"stats", "funny">>,
      <<"media", "type">>>>

(* The value at a path of a record, Absent when the path is missing at any *)
(* depth                                                                   *)
ValueAt(p, path) ==
    IF Len(path) = 1 THEN p[path[1]]
    ELSE IF p[path[1]].k = "obj" THEN p[path[1]][path[2]]
    ELSE Absent

(* C7: the CSV has the 15 headers in their order, then one row of 15 cells *)
(* per record in input order; a cell holds the value at its column's path  *)
(* (a null written as the empty field), and is empty when the path is      *)
(* missing at any depth.                                                   *)
C7_CsvRows ==
    pc = "csv_done" =>
       /\ download.present
       /\ Len(download.header) = 15
       /\ download.header =
             <<"Post Date", "posted_at/relative", "url", "Post Type",
               "Post Content", "total reactions", "like", "support", "love",
               "insightful", "celebrate", "comments", "reposts", "funny",
               "Media Type">>
       /\ Len(download.rows) = Len(posts)
       /\ \A i \in 1..Len(posts) :
             /\ Len(download.rows[i]) = 15
             /\ \A c \in 1..15 :
                   download.rows[i][c] =
                      (IF ValueAt(posts[i], ColumnPaths[c]).k
                             \in {"absent", "null"}
                       THEN EmptyStr
                       ELSE ValueAt(posts[i], ColumnPaths[c]))

(* C7 witness: a record with stats.insight and without stats.celebrate was *)
(* exported, after a record without stats.                                 *)
C7_Witness ==
    /\ pc = "csv_done"
    /\ Len(posts) = 2
    /\ posts[1].stats.k = "absent"
    /\ posts[2].stats.k = "obj"
    /\ posts[2].stats.insight = Num(2)
    /\ posts[2].stats.celebrate = Absent
    /\ download.rows[2][10] = Num(2)
    /\ download.rows[2][11] = EmptyStr

----------------------------------------------------------------------------
(* Properties of extract_username (SpecUser) *)

IndexOfFirst(S) == CHOOSE i \in S : \A j \in S : i <= j
IndexOfLast(S) == CHOOSE i \in S : \A j \in S : i >= j

(* The characters of s from j up to the next of / ? # or to the end *)
SegmentFrom(s, j) ==
    LET stops == {k \in j..Len(s) : s[k] \in Delims}
    IN IF stops = {} THEN SubSeq(s, j, Len(s))
       ELSE SubSeq(s, j, IndexOfFirst(stops) - 1)

(* s without its leading and trailing whitespace *)
Trimmed(s) ==
    LET solid == {k \in 1..Len(s) : s[k] \notin Whitespace}
    IN IF solid = {} THEN <<>>
       ELSE SubSeq(s, IndexOfFirst(solid), IndexOfLast(solid))

(* The places where s reads lit and then a character that is none of / ? # *)
Occurrences(s, lit) ==
    {i \in 1..Len(s) :
        /\ i + Len(lit) <= Len(s)
        /\ SubSeq(s, i, i + Len(lit) - 1) = lit
        /\ s[i + Len(lit)] \notin Delims}

InSlash == <<"/", "i", "n", "/">>
LinkedinIn ==
    <<"l", "i", "n", "k", "e", "d", "i", "n", ".", "c", "o", "m",
      "/", "i", "n", "/">>

(* C8 (as claimed): an input with /in/<segment> anywhere gives a segment   *)
(* that follows a /in/, any other input gives the trimmed input.           *)
C8_AnyInPath ==
    pc = "url_done" =>
       IF Occurrences(profile_url, InSlash) # {}
       THEN \E i \in Occurrences(profile_url, InSlash) :
               username = SegmentFrom(profile_url, i + Len(InSlash))
       ELSE username = Trimmed(profile_url)

(* C8 (amended): an input with linkedin.com/in/<segment> gives the segment *)
(* of its leftmost such place, up to the next / ? # or the end; any other  *)
(* input gives the trimmed input.                                          *)
C8_LinkedinInPath ==
    pc = "url_done" =>
       IF Occurrences(profile_url, LinkedinIn) # {}
       THEN username =
               SegmentFrom(profile_url,
                  IndexOfFirst(Occurrences(profile_url, LinkedinIn))
                     + Len(LinkedinIn))
       ELSE username = Trimmed(profile_url)

(* C8 witness: a URL with a profile path and a ? or # gave a segment that  *)
(* is not all of the rest of the URL.                                      *)
C8_Witness ==
    /\ pc = "url_done"
    /\ Cardinality(Occurrences(profile_url, LinkedinIn)) >= 1
    /\ \E k \in 1..Len(profile_url) : profile_url[k] \in {"?", "#"}
    /\ username # <<>>
    /\ Len(username) < Len(profile_url) - Len(LinkedinIn)

====
